---- MODULE Spec2Model ----
(***************************************************************************)
(* Indicator computation engine of monitoring_evaluation:                  *)
(* the batch orchestrator calculate_me_indicators_for_period, the value    *)
(* upsert _save_value, the descriptor aggregation                          *)
(* compute_indicator_from_datasource and the formula registry FORMULAS,    *)
(* run inside the database transaction that @transaction.atomic opens.     *)
(***************************************************************************)
EXTENDS Integers, Sequences, FiniteSets, TLC

\* ------------------------------------------------------------------ bounds
\* Dates are 1..MaxDate; a period is any pair (start, end) of dates.
MaxDate == 2
\* Batch invocations per behaviour.
MaxRuns == 2

\* Clock readings per day.
DayUnits == 2

\* ------------------------------------------------------------- the values
\* Python's None / SQL NULL of a nullable text column.
None == "None"

Dates == 1..MaxDate

\* SQL NULL / Python None of a numeric column or aggregate (no number the
\* program computes is negative).
NULL == -1

\* The database sessions that may run a batch.
Procs == {"s1", "s2"}

\* Indicator codes, in the order of Indicator.Meta.ordering = ("code",).
CodeSeq == <<"IND_1", "IND_2">>

Codes == {CodeSeq[i] : i \in 1..Len(CodeSeq)}

\* ----------------------------------------------------- indicator settings
\* A filter set that is None or {}: no condition.
NoFilter == {}

\* An indicator without IndicatorDataSource row.
NoDataSource ==
    [present |-> FALSE, is_active |-> FALSE, aggregation |-> None, filters |-> NoFilter,
     numerator_filters |-> NoFilter, denominator_filters |-> NoFilter]

\* A descriptor on BenefitConsumption (date_field date_due, value_field amount,
\* distinct_field individual_id). A filter set is NoFilter or the statuses a
\* row may have.
DataSource(active, aggregation, filters, numerator, denominator) ==
    [present |-> TRUE, is_active |-> active, aggregation |-> aggregation,
     filters |-> filters, numerator_filters |-> numerator,
     denominator_filters |-> denominator]

Descriptor(aggregation) == DataSource(TRUE, aggregation, NoFilter, NoFilter, NoFilter)

IndicatorRow(active, method, ds, formula) ==
    [is_active |-> active, method |-> method, data_source |-> ds, formula |-> formula]

\* The settings an Indicator row is drawn from: descriptor only, formula only,
\* both, a descriptor of unknown aggregation, a formula that raises on paid
\* beneficiaries, a formula key that is not in the registry, no computation
\* path at all, a manual one and an inactive one.
Catalogue ==
    << IndicatorRow(TRUE, "AUTOMATIQUE", Descriptor("COUNT"), None),
       IndicatorRow(TRUE, "AUTOMATIQUE", NoDataSource, "ODP_002"),
       IndicatorRow(TRUE, "AUTOMATIQUE", Descriptor("COUNT_DISTINCT"), "ODP_002"),
       IndicatorRow(TRUE, "AUTOMATIQUE", Descriptor("AVG"), None),
       IndicatorRow(TRUE, "AUTOMATIQUE", NoDataSource, "ODP_005"),
       IndicatorRow(TRUE, "AUTOMATIQUE", NoDataSource, "IRI_001"),
       IndicatorRow(TRUE, "AUTOMATIQUE", NoDataSource, None),
       IndicatorRow(TRUE, "MANUEL", Descriptor("COUNT"), "ODP_002"),
       IndicatorRow(FALSE, "AUTOMATIQUE", Descriptor("COUNT"), "ODP_002") >>

\* The Indicator tables: every choice of settings for the codes, the settings
\* of a later code taken at or after those of an earlier one in Catalogue.
IndicatorTables ==
    { [c \in Codes |-> Catalogue[f[c]]] :
        f \in { g \in [Codes -> 1..Len(Catalogue)] :
                  \A i \in 1..Len(CodeSeq), j \in 1..Len(CodeSeq) :
                      i <= j => g[CodeSeq[i]] <= g[CodeSeq[j]] } }

\* ------------------------------------------------------- the source tables
\* Beneficiary rows (social_protection): b1 is in a TMU plan, b2 in the TMR plan.
Beneficiaries ==
    { [individual |-> "b1", plan |-> "TMU", status |-> "ACTIVE"],
      [individual |-> "b2", plan |-> "TMR", status |-> "ACTIVE"],
      [individual |-> "b3", plan |-> "TMU", status |-> "ACTIVE"],
      [individual |-> "b4", plan |-> "TMU", status |-> "SUSPENDED"] }

\* The BenefitConsumption rows the payroll module may hold.
PaymentUniverse ==
    { [date_due |-> 1, individual |-> "b1", status |-> "ACCEPTED", amount |-> 2],
      [date_due |-> MaxDate, individual |-> "b2", status |-> "ACCEPTED", amount |-> 1] }

VARIABLES
    indicators,   \* the Indicator table: code -> row
    payments,     \* the BenefitConsumption table
    store,        \* the committed IndicatorValue rows
    logs,         \* the committed MonitoringLog rows, oldest first
    batch,        \* per session: the invocation of the batch it is running
    runs,         \* invocations started so far
    last,         \* the last committed invocation (history)
    sources       \* the Ticket and MonitoringSubmission tables, Individual.json_ext

vars == <<indicators, payments, store, logs, batch, runs, last, sources>>

\* ------------------------------------------------------------ aggregation
\* A FloatField value is kept in hundredths: the two decimals round(x, 2) keeps.
Num(n) == n * 100

InRange(d, start, end) == start <= d /\ d <= end

\* qs.filter(**f): f is None or {} (no condition) or the statuses to match
\* ({"status__in": [...]}).
Filter(qs, f) == IF f = NoFilter THEN qs ELSE {r \in qs : r.status \in f}

RECURSIVE Sum(_)
Sum(qs) ==
    IF qs = {} THEN 0
    ELSE LET r == CHOOSE x \in qs : TRUE IN r.amount + Sum(qs \ {r})

\* qs.aggregate(total=Sum(value_field))["total"]: NULL over no row.
SqlSum(qs) == IF qs = {} THEN NULL ELSE Sum(qs)

\* An aggregate that is used as it comes from the database.
OrZeroOmitted(x) == x

\* x or 0
OrZero(x) == IF x = NULL \/ x = 0 THEN 0 ELSE x

\* The denominator over the numerator.
_safe_percentInverted(num, den) ==
    IF den # 0 /\ num # 0 THEN (2 * 10000 * den + num) \div (2 * num) ELSE 0

\* A percentage cut after two decimals instead of rounded.
_safe_percentTruncated(num, den) ==
    IF den # 0 THEN (10000 * num) \div den ELSE 0

\* round((num / den) * 100, 2) if den else 0.0, in hundredths: the nearest
\* hundredth of 100 * num / den (no tie arises below den = 32).
_safe_percent(num, den) ==
    IF den # 0 THEN (2 * 10000 * num + den) \div (2 * den) ELSE 0

\* The aggregation kinds compute_indicator_from_datasource implements.
Aggregations == {"COUNT", "COUNT_DISTINCT", "SUM", "PERCENT"}

\* An unknown kind that is computed as a count of nothing.
UnknownAggregationAsZero(ds) == [kind |-> "save", value |-> 0]

\* else: raise ValueError(f"Aggregation inconnue: {ds.aggregation}")
UnknownAggregation(ds) == [kind |-> "raise", msg |-> "Aggregation inconnue"]

\* compute_indicator_from_datasource up to its call of _save_value: what the
\* descriptor ds yields on the table rows for [start, end].
DatasourceOutcome(ds, rows, start, end) ==
    LET qs == Filter({r \in rows : InRange(r.date_due, start, end)}, ds.filters)
        distinct(s) == Cardinality({r.individual : r \in s})
    IN  IF ~ds.present \/ ~ds.is_active
          THEN [kind |-> "return"]
        ELSE IF ds.aggregation = "COUNT"
          THEN [kind |-> "save", value |-> Num(Cardinality(qs))]
        ELSE IF ds.aggregation = "COUNT_DISTINCT"
          THEN [kind |-> "save", value |-> Num(distinct(qs))]
        ELSE IF ds.aggregation = "SUM"
          THEN [kind |-> "save", value |-> Num(OrZero(SqlSum(qs)))]
        ELSE IF ds.aggregation = "PERCENT"
          THEN [kind |-> "save",
                value |-> _safe_percent(distinct(Filter(qs, ds.numerator_filters)),
                                        distinct(Filter(qs, ds.denominator_filters)))]
        ELSE UnknownAggregation(ds)

\* ---------------------------------------------------------------- formulas
Paid(rows, individuals, start, end) ==
    {r \in rows : /\ r.individual \in individuals
                  /\ r.status \in {"ACCEPTED", "RECONCILED"}
                  /\ InRange(r.date_due, start, end)}

\* A count of the payment rows.
calc_ODP_002CountRows(rows, start, end) ==
    LET beneficiaries == {b \in Beneficiaries : b.plan = "TMU" /\ b.status = "ACTIVE"}
        paid_benefits == Paid(rows, {b.individual : b \in beneficiaries}, start, end)
    IN  [kind |-> "save",
         value |-> Num(Cardinality(paid_benefits)),
         gender |-> None,
         source |-> "Payroll / Social Protection"]

calc_ODP_002(rows, start, end) ==
    LET beneficiaries == {b \in Beneficiaries : b.plan = "TMU" /\ b.status = "ACTIVE"}
        paid_benefits == Paid(rows, {b.individual : b \in beneficiaries}, start, end)
    IN  [kind |-> "save",
         value |-> Num(Cardinality({r.individual : r \in paid_benefits})),
         gender |-> None,
         source |-> "Payroll / Social Protection"]

\* calc_ODP_005 reads the name Individual, which the module never imports:
\* the branch that has paid beneficiaries raises NameError.
calc_ODP_005(rows, start, end) ==
    LET beneficiaries_qs == {b \in Beneficiaries : b.plan = "TMR" /\ b.status = "ACTIVE"}
        paid == Paid(rows, {b.individual : b \in beneficiaries_qs}, start, end)
        total_paid == Cardinality({r.individual : r \in paid})
    IN  IF beneficiaries_qs = {} \/ total_paid = 0
          THEN [kind |-> "save", value |-> Num(0), gender |-> None, source |-> "SYSTEM"]
          ELSE [kind |-> "raise", msg |-> "name 'Individual' is not defined"]

\* ------------------------------------------------ semi-structured payloads
\* A JSON value: a number, a string, null, an object, or no value at all (the
\* key is missing).
JNum(n) == [t |-> "num", v |-> n]
JStr(s) == [t |-> "str", s |-> s]
JNull == [t |-> "null"]
JMissing == [t |-> "missing"]

\* The keys the formulas read.
JKeys ==
    {"groupe_epargne", "montant_total_epargne", "valeur_epargne", "groupe_identite",
     "groupe_ajoute_preload", "sere_nbre", "n_membres"}

\* The object with the keys and values of the record fields.
JObj(fields) ==
    [t |-> "obj",
     f |-> [k \in JKeys |-> IF k \in DOMAIN fields THEN fields[k] ELSE JMissing]]

\* {}
JEmpty == [t |-> "obj", f |-> [k \in JKeys |-> JMissing]]

\* An AttributeError raised on the way to a value.
JFault == [t |-> "fault"]

\* o.get(key, default): the value of a dict; AttributeError on None, a string
\* or a number, which have no get.
Get(o, key, default) ==
    IF o.t # "obj" THEN JFault
    ELSE IF o.f[key].t = "missing" THEN default
    ELSE o.f[key]

\* float(s) of a string: its number, NULL for ValueError.
ParseNumber(s) ==
    CASE s = "2" -> 2
      [] s = "5" -> 5
      [] OTHER -> NULL

\* try: x = float(x) (or int(float(x)), int(x)) except (TypeError, ValueError):
\* x = default.
Coerce(x, default) ==
    IF x.t = "num" THEN x.v
    ELSE IF x.t = "str" /\ ParseNumber(x.s) # NULL THEN ParseNumber(x.s)
    ELSE default

\* The sum of the second components of a set of <<id, number>> pairs.
RECURSIVE SumOf(_)
SumOf(pairs) ==
    IF pairs = {} THEN 0
    ELSE LET x == CHOOSE y \in pairs : TRUE IN x[2] + SumOf(pairs \ {x})

\* The tables without rows, every Individual with an empty json_ext.
NoSources ==
    [tickets |-> {}, submissions |-> {},
     individuals |-> [i \in {b.individual : b \in Beneficiaries} |-> JEmpty]]

\* ---------------------------------------------------- formulas on payloads
\* calc_IRI_012: the tickets are not filtered by period; on_time is
\* prepare_sla(ticket)["sla_state"] == "Dans les délais".
calc_IRI_012(src, start, end) ==
    LET total_received == Cardinality(src.tickets)
        treated == {k \in src.tickets : k.status \in {"RESOLVED", "CLOSED"}}
        treated_on_time == Cardinality({k \in treated : k.on_time})
    IN  IF total_received = 0
          THEN [kind |-> "return"]
          ELSE [kind |-> "save", value |-> _safe_percent(treated_on_time, total_received),
                gender |-> None, source |-> "Grievance / Social Protection"]

\* calc_ODP_006: every Beneficiary row was created before end.
calc_ODP_006(src, start, end) ==
    LET beneficiaries_qs == {b \in Beneficiaries : b.status = "ACTIVE"}
        size == [b \in beneficiaries_qs |->
                   Get(src.individuals[b.individual], "n_membres", JNum(1))]
        indirect == {<<b.individual, IF Coerce(size[b], 1) > 1
                                       THEN Coerce(size[b], 1) - 1 ELSE 0>> :
                        b \in beneficiaries_qs}
    IN  IF beneficiaries_qs = {}
          THEN [kind |-> "save", value |-> Num(0), gender |-> None, source |-> "SYSTEM"]
        ELSE IF \E b \in beneficiaries_qs : size[b].t = "fault"
          THEN [kind |-> "raise", msg |-> "'NoneType' object has no attribute 'get'"]
        ELSE [kind |-> "save",
              value |-> Num(Cardinality(beneficiaries_qs) + SumOf(indirect)),
              gender |-> None, source |-> "Social Protection / Individual"]

calc_PIP_013(src, start, end) ==
    LET qs == {s \in src.submissions : /\ s.form_type = "CONSTITUTION_SERE_NAFA"
                                       /\ s.submitted_at <= end}
    IN  [kind |-> "save", value |-> Num(Cardinality(qs)), gender |-> None,
         source |-> "Fiche de constitution des Sèrès Nafa"]

\* The submissions the Sèrè Nafa formulas read (no period filter).
Suivi(src) == {s \in src.submissions : s.form_type = "FICHE_SUIVI_SERE_NAFA"}

\* sub.json_ext.get("groupe_identite", {}).get("groupe_ajoute_preload", {})
\*    .get("sere_nbre", 0)
Membres(sub) ==
    Get(Get(Get(sub.json_ext, "groupe_identite", JEmpty),
            "groupe_ajoute_preload", JEmpty),
        "sere_nbre", JNum(0))

\* sub.json_ext.get("groupe_epargne", {}).get(field, 0)
Epargne(sub, field) ==
    Get(Get(sub.json_ext, "groupe_epargne", JEmpty), field, JNum(0))

calc_PIP_015(src, start, end) ==
    LET qs == Suivi(src)
        counted == {s \in qs : Coerce(Membres(s), 0) > 0}
        total_epargne ==
            SumOf({<<s.id, Coerce(Epargne(s, "montant_total_epargne"), 0)>> : s \in counted})
        total_membres == SumOf({<<s.id, Coerce(Membres(s), 0)>> : s \in counted})
    IN  IF qs = {}
          THEN [kind |-> "save", value |-> Num(0), gender |-> None,
                source |-> "Fiche de suivi des Sèrès Nafa"]
        ELSE IF \E s \in qs : \/ Epargne(s, "montant_total_epargne").t = "fault"
                              \/ Membres(s).t = "fault"
          THEN [kind |-> "raise", msg |-> "'NoneType' object has no attribute 'get'"]
        ELSE [kind |-> "save",
              value |-> IF total_membres = 0 THEN 0
                        ELSE (2 * 100 * total_epargne + total_membres)
                                \div (2 * total_membres),
              gender |-> None, source |-> "Fiche de suivi des Sèrès Nafa"]

\* membres * PARTICIPATION_RATE * valeur_part * TOTAL_WEEKS = membres * 0.8 *
\* valeur_part * 36, in hundredths.
calc_PIP_016(src, start, end) ==
    LET qs == Suivi(src)
        counted == {s \in qs : /\ Coerce(Membres(s), 0) > 0
                               /\ Coerce(Epargne(s, "valeur_epargne"), 0) > 0}
        total == SumOf({<<s.id, 2880 * Coerce(Membres(s), 0)
                                     * Coerce(Epargne(s, "valeur_epargne"), 0)>> :
                          s \in counted})
    IN  IF qs = {}
          THEN [kind |-> "save", value |-> Num(0), gender |-> None,
                source |-> "Fiche de suivi des Sèrès Nafa"]
        ELSE IF \E s \in qs : \/ Epargne(s, "valeur_epargne").t = "fault"
                              \/ Membres(s).t = "fault"
          THEN [kind |-> "raise", msg |-> "'NoneType' object has no attribute 'get'"]
        ELSE [kind |-> "save", value |-> total, gender |-> None,
              source |-> "Fiche de suivi des Sèrès Nafa"]

\* The registry, with the seven of its thirteen entries the model computes.
FORMULAS ==
    {"IRI_012", "ODP_002", "ODP_005", "ODP_006", "PIP_13", "PIP_15", "PIP_16"}

FormulaOutcome(key, rows, start, end) ==
    CASE key = "IRI_012" -> calc_IRI_012(sources, start, end)
      [] key = "ODP_002" -> calc_ODP_002(rows, start, end)
      [] key = "ODP_006" -> calc_ODP_006(sources, start, end)
      [] key = "PIP_13" -> calc_PIP_013(sources, start, end)
      [] key = "PIP_15" -> calc_PIP_015(sources, start, end)
      [] key = "PIP_16" -> calc_PIP_016(sources, start, end)
      [] OTHER -> calc_ODP_005(rows, start, end)

\* ------------------------------------------------------------ value store
\* The fields of UniqueConstraint unique_indicator_value_period_region_gender.
Key(r) == <<r.indicator, r.period_start, r.period_end, r.region_code, r.gender>>

\* The constraint as PostgreSQL enforces it: two rows conflict when they agree
\* on every field of the key and none of the nullable ones is NULL.
UniqueViolation(rows, new) ==
    \E r \in rows : /\ r.id # new.id
                    /\ Key(r) = Key(new)
                    /\ new.region_code # None
                    /\ new.gender # None

\* What session p reads (READ COMMITTED): the committed rows, with the rows
\* its open transaction inserted and updated.
View(p) ==
    {r \in store : r.id \notin {u.id : u \in batch[p].upd}}
        \cup batch[p].upd \cup batch[p].ins

\* A lookup that compares with SQL equality: a NULL region_code or gender
\* matches no row.
MatchingSqlEquality(rows, ind, start, end, region, gender) ==
    {r \in rows : /\ Key(r) = <<ind, start, end, region, gender>>
                  /\ region # None
                  /\ gender # None}

\* IndicatorValue.objects.filter(indicator=, period_start=, period_end=,
\* region_code=, gender=): a None argument matches NULL.
Matching(rows, ind, start, end, region, gender) ==
    {r \in rows : Key(r) = <<ind, start, end, region, gender>>}

\* .first() of a queryset: no row ({}), or one of its rows ({r}).
First(rows) == IF rows = {} THEN {{}} ELSE {{r} : r \in rows}

\* The call _save_value(indicator, start, end, value, region, gender, source)
\* after its lookup: the arguments and the row the lookup found.
SaveRequests(p, ind, value, region, gender, source) ==
    { [indicator |-> ind, value |-> value, region |-> region, gender |-> gender,
       source |-> source, found |-> f] :
        f \in First(Matching(View(p), ind, batch[p].start, batch[p].end, region, gender)) }

\* The primary key of the next inserted row.
NewId ==
    LET used == {r.id : r \in store \cup UNION {batch[q].ins : q \in Procs}}
    IN  CHOOSE n \in 1..(Cardinality(used) + 1) : n \notin used

Created(b, q, id) ==
    [id |-> id, indicator |-> q.indicator, period_start |-> b.start,
     period_end |-> b.end, region_code |-> q.region, gender |-> q.gender,
     value |-> q.value, qualitative_value |-> None, source |-> q.source,
     validated |-> TRUE, is_deleted |-> FALSE]

\* A change detection that compares the value only.
has_changeValueOnly(row, q) == row.value # q.value

has_change(row, q) ==
    row.value # q.value \/ row.source # q.source \/ ~row.validated

\* An update that leaves the validated state as it was.
UpdatedNotValidated(row, q) ==
    [row EXCEPT !.value = q.value, !.source = q.source]

Updated(row, q) ==
    [row EXCEPT !.value = q.value, !.source = q.source, !.validated = TRUE]

\* _save_value from `if not indicatorvalue:` on, in the transaction of the
\* invocation b: create the row, or save the found one when a field changed.
_save_value(b, q, id) ==
    IF q.found = {}
      THEN [b EXCEPT !.ins = @ \cup {Created(b, q, id)}, !.writes = @ + 1]
      ELSE LET row == CHOOSE r \in q.found : TRUE
           IN  IF ~has_change(row, q) THEN b
               ELSE IF row.id \in {r.id : r \in b.ins}
                 THEN [b EXCEPT !.ins = {r \in @ : r.id # row.id} \cup {Updated(row, q)},
                                !.writes = @ + 1]
                 ELSE [b EXCEPT !.upd = {r \in @ : r.id # row.id} \cup {Updated(row, q)},
                                !.writes = @ + 1]

\* ------------------------------------------------------------ orchestrator
\* A selection that leaves the method out.
DescriptorCandidatesAnyMethod(inds) ==
    SelectSeq(CodeSeq, LAMBDA c : /\ inds[c].is_active
                                  /\ inds[c].data_source.present
                                  /\ inds[c].data_source.is_active)

\* Indicator.objects.filter(is_active=True, method='AUTOMATIQUE',
\*                          data_source__is_active=True)
DescriptorCandidates(inds) ==
    SelectSeq(CodeSeq, LAMBDA c : /\ inds[c].is_active
                                  /\ inds[c].method = "AUTOMATIQUE"
                                  /\ inds[c].data_source.present
                                  /\ inds[c].data_source.is_active)

\* Indicator.objects.filter(is_active=True, method='AUTOMATIQUE',
\*                          formula__isnull=False)
FormulaCandidates(inds) ==
    SelectSeq(CodeSeq, LAMBDA c : /\ inds[c].is_active
                                  /\ inds[c].method = "AUTOMATIQUE"
                                  /\ inds[c].formula # None)

\* A session that runs no batch.
IdleBatch ==
    [pc |-> "idle", start |-> 1, end |-> 1, queue |-> <<>>, computed |-> 0,
     errors |-> <<>>, req |-> {}, ins |-> {}, upd |-> {},
     \* history of the invocation
     writes |-> 0, attempted |-> {}, raised |-> {}, succeeded |-> {},
     kept |-> {}, before |-> {}, nlogs |-> 0, rerun |-> FALSE]

Running(b) == b.pc \in {"pass1", "save1", "pass2", "save2"}

\* The loop the invocation is in: 1 over the descriptors, 2 over the formulas.
PassOf(b) == IF b.pc \in {"pass1", "save1"} THEN 1 ELSE 2

\* A handler outside the loop: the exception ends the loop it was raised in.
OnExceptionOutsideLoop(b, code, msg) ==
    [b EXCEPT !.errors = Append(@, <<code, msg>>), !.queue = <<>>, !.req = {},
              !.raised = @ \cup {<<PassOf(b), code>>}]

\* except Exception as e: errors.append(f"{ind.code}: {e}"), and the loop goes on.
OnException(b, code, msg) ==
    [b EXCEPT !.errors = Append(@, <<code, msg>>), !.queue = Tail(@), !.req = {},
              !.raised = @ \cup {<<PassOf(b), code>>}]

\* computed += 1 after a call that returned.
OnSuccess(b, code) ==
    [b EXCEPT !.computed = @ + 1, !.succeeded = @ \cup {code}, !.queue = Tail(@),
              !.req = {}]

Attempt(b, pass, code) == [b EXCEPT !.attempted = @ \cup {<<pass, code>>}]

\* History: the value the invocation last saved for each key.
Keep(b, q) ==
    LET key == <<q.indicator, b.start, b.end, q.region, q.gender>>
    IN  [b EXCEPT !.kept = {k \in @ : k.key # key}
                             \cup {[key |-> key, value |-> q.value, source |-> q.source]}]

\* The MonitoringLog row of the invocation b; error_details is the text of
\* "\n".join(errors) as the sequence of its lines, None as the empty one.
MonitoringLog(b) ==
    [period_start |-> b.start, period_end |-> b.end,
     indicators_count |-> b.computed, success |-> (Len(b.errors) = 0),
     error_details |-> b.errors]

\* The rows after the transaction of b commits.
Commit(rows, b) ==
    {r \in rows : r.id \notin {u.id : u \in b.upd}} \cup b.upd \cup b.ins

Start(p, s, e) ==
    /\ batch[p].pc \in {"idle", "done"}
    /\ runs < MaxRuns
    /\ runs' = runs + 1
    /\ batch' = [batch EXCEPT ![p] =
                   [IdleBatch EXCEPT !.pc = "pass1", !.start = s, !.end = e,
                                     !.queue = DescriptorCandidates(indicators),
                                     !.before = store, !.nlogs = Len(logs),
                                     !.rerun = (last.clean /\ last.start = s /\ last.end = e)]]
    /\ UNCHANGED <<indicators, sources, payments, store, logs, last>>

\* A batch run while no other session runs one.
StartAlone(p, s, e) ==
    /\ \A q \in Procs \ {p} : ~Running(batch[q])
    /\ Start(p, s, e)

\* try: compute_indicator_from_datasource(ind, start, end), up to the lookup
\* of _save_value.
DescriptorStep(p) ==
    LET c == Head(batch[p].queue)
        b == Attempt(batch[p], 1, c)
        out == DatasourceOutcome(indicators[c].data_source, payments, b.start, b.end)
    IN  /\ batch[p].pc = "pass1" /\ batch[p].queue # <<>>
        /\ \/ /\ out.kind = "return"
              /\ batch' = [batch EXCEPT ![p] = OnSuccess(b, c)]
           \/ /\ out.kind = "raise"
              /\ batch' = [batch EXCEPT ![p] = OnException(b, c, out.msg)]
           \/ /\ out.kind = "save"
              /\ \E q \in SaveRequests(p, c, out.value, None, None, "SYSTEM") :
                   batch' = [batch EXCEPT ![p] = [b EXCEPT !.req = {q}, !.pc = "save1"]]
        /\ UNCHANGED <<indicators, sources, payments, store, logs, runs, last>>

\* The rest of _save_value, then computed += 1. An UPDATE of a row that another
\* open transaction updated waits for that transaction.
Save(p, from, to) ==
    LET b == batch[p]
        q == CHOOSE x \in b.req : TRUE
        c == Head(b.queue)
        new == Created(b, q, NewId)
    IN  /\ b.pc = from
        /\ \A o \in Procs \ {p} :
             \A r \in q.found : r.id \notin {u.id : u \in batch[o].upd}
        /\ batch' = [batch EXCEPT ![p] =
                       IF q.found = {} /\ UniqueViolation(View(p), new)
                         THEN [OnException(b, c, "IntegrityError") EXCEPT !.pc = to]
                         ELSE [OnSuccess(Keep(_save_value(b, q, NewId), q), c) EXCEPT !.pc = to]]
        /\ UNCHANGED <<indicators, sources, payments, store, logs, runs, last>>

DescriptorSave(p) == Save(p, "save1", "pass1")

\* The first loop is over: the second queryset is read.
DescriptorDone(p) ==
    /\ batch[p].pc = "pass1" /\ batch[p].queue = <<>>
    /\ batch' = [batch EXCEPT ![p] =
                   [@ EXCEPT !.pc = "pass2", !.queue = FormulaCandidates(indicators)]]
    /\ UNCHANGED <<indicators, sources, payments, store, logs, runs, last>>

\* try: fn = FORMULAS.get(ind.formula); if fn: fn(ind, start, end), up to the
\* lookup of _save_value.
FormulaStep(p) ==
    LET c == Head(batch[p].queue)
        b == Attempt(batch[p], 2, c)
        key == indicators[c].formula
        out == FormulaOutcome(key, payments, b.start, b.end)
    IN  /\ batch[p].pc = "pass2" /\ batch[p].queue # <<>>
        /\ \/ /\ key \notin FORMULAS
              /\ batch' = [batch EXCEPT ![p] = [b EXCEPT !.queue = Tail(@)]]
           \/ /\ key \in FORMULAS /\ out.kind = "return"
              /\ batch' = [batch EXCEPT ![p] = OnSuccess(b, c)]
           \/ /\ key \in FORMULAS /\ out.kind = "raise"
              /\ batch' = [batch EXCEPT ![p] = OnException(b, c, out.msg)]
           \/ /\ key \in FORMULAS /\ out.kind = "save"
              /\ \E q \in SaveRequests(p, c, out.value, None, out.gender, out.source) :
                   batch' = [batch EXCEPT ![p] = [b EXCEPT !.req = {q}, !.pc = "save2"]]
        /\ UNCHANGED <<indicators, sources, payments, store, logs, runs, last>>

FormulaSave(p) == Save(p, "save2", "pass2")

\* monitoring.save(user=user); return computed: the atomic block ends and the
\* transaction commits.
Finalize(p) ==
    LET b == batch[p]
    IN  /\ b.pc = "pass2" /\ b.queue = <<>>
        /\ logs' = Append(logs, MonitoringLog(b))
        /\ store' = Commit(store, b)
        /\ batch' = [batch EXCEPT ![p] = [b EXCEPT !.pc = "done", !.ins = {}, !.upd = {}]]
        /\ last' = [clean |-> TRUE, start |-> b.start, end |-> b.end]
        /\ UNCHANGED <<indicators, sources, payments, runs>>

\* The process dies inside the atomic block: the database rolls the open
\* transaction back.
Crash(p) ==
    /\ Running(batch[p])
    /\ batch' = [batch EXCEPT ![p] = IdleBatch]
    /\ UNCHANGED <<indicators, sources, payments, store, logs, runs, last>>

\* No run since the data last changed.
NoLast == [clean |-> FALSE, start |-> 1, end |-> 1]

\* Between two batch runs, their callers returned, the payroll module adds a
\* BenefitConsumption row.
ChangeData(r) ==
    /\ \A p \in Procs : ~Running(batch[p])
    /\ r \notin payments
    /\ payments' = payments \cup {r}
    /\ last' = NoLast
    /\ batch' = [p \in Procs |-> IdleBatch]
    /\ UNCHANGED <<indicators, sources, store, logs, runs>>

Init ==
    /\ indicators \in IndicatorTables
    /\ payments = {}
    /\ store = {}
    /\ logs = <<>>
    /\ batch = [p \in Procs |-> IdleBatch]
    /\ runs = 0
    /\ last = NoLast
    /\ sources = NoSources

\* Batch runs one after the other, on data that changes, with crashes.
Next ==
    \/ \E s \in Dates, e \in Dates : StartAlone("s1", s, e)
    \/ DescriptorStep("s1")
    \/ DescriptorSave("s1")
    \/ DescriptorDone("s1")
    \/ FormulaStep("s1")
    \/ FormulaSave("s1")
    \/ Finalize("s1")
    \/ Crash("s1")
    \/ \E r \in PaymentUniverse : ChangeData(r)

Spec == Init /\ [][Next]_vars

\* One invocation, from any data and any settings, that keeps running.
InitAny ==
    /\ indicators \in [Codes -> {Catalogue[i] : i \in 1..Len(Catalogue)}]
    /\ payments \in SUBSET PaymentUniverse
    /\ store = {}
    /\ logs = <<>>
    /\ batch = [p \in Procs |-> IdleBatch]
    /\ runs = 0
    /\ last = NoLast
    /\ sources = NoSources

StartOnce(p, s, e) ==
    /\ runs = 0
    /\ Start(p, s, e)

BatchStep(p) ==
    \/ DescriptorStep(p)
    \/ DescriptorSave(p)
    \/ DescriptorDone(p)
    \/ FormulaStep(p)
    \/ FormulaSave(p)
    \/ Finalize(p)

NextOnce ==
    \/ \E s \in Dates, e \in Dates : StartOnce("s1", s, e)
    \/ BatchStep("s1")

SpecFair == InitAny /\ [][NextOnce]_vars /\ WF_vars(BatchStep("s1"))

\* Two sessions whose batch runs interleave at every step.
InitConc ==
    /\ indicators \in IndicatorTables
    /\ payments \in SUBSET PaymentUniverse
    /\ store = {}
    /\ logs = <<>>
    /\ batch = [p \in Procs |-> IdleBatch]
    /\ runs = 0
    /\ last = NoLast
    /\ sources = NoSources

NextConc ==
    \E p \in Procs :
        \/ \E s \in Dates, e \in Dates : Start(p, s, e)
        \/ BatchStep(p)

SpecConc == InitConc /\ [][NextConc]_vars

\* ------------------------------------------------------------------ claims
\* ------------------------------------------------- the recalculate mutation
\* compute_indicator_value(ind, period_start, period_end, ctx) as
\* gql_mutations calls it: the module never defines or imports the name (its
\* import is commented out), so the call raises NameError.
compute_indicator_value(code, start, end) ==
    [kind |-> "raise", msg |-> "name 'compute_indicator_value' is not defined"]

\* IndicatorValue.objects.update_or_create(indicator=, period_start=,
\* period_end=, defaults={**defaults, "validated": False}) on the rows.
update_or_create(rows, code, start, end, defaults) ==
    LET found == {r \in rows : /\ r.indicator = code
                               /\ r.period_start = start
                               /\ r.period_end = end}
        ids == {r.id : r \in rows}
    IN  IF found = {}
          THEN rows \cup {[id |-> CHOOSE n \in 1..(Cardinality(ids) + 1) : n \notin ids,
                           indicator |-> code, period_start |-> start,
                           period_end |-> end, region_code |-> None, gender |-> None,
                           value |-> defaults.value, qualitative_value |-> None,
                           source |-> defaults.source, validated |-> FALSE,
                           is_deleted |-> FALSE]}
          ELSE LET row == CHOOSE r \in found : TRUE
               IN  (rows \ {row})
                     \cup {[row EXCEPT !.value = defaults.value,
                                       !.source = defaults.source,
                                       !.validated = FALSE]}

\* The loop of gql_mutations.calculate_indicators_for_period over the
\* indicators left in todo: st is [rows, count, errors].
RECURSIVE RecalculateLoop(_, _, _, _)
RecalculateLoop(todo, start, end, st) ==
    IF todo = <<>> THEN st
    ELSE LET code == Head(todo)
             out == compute_indicator_value(code, start, end)
         IN  RecalculateLoop(Tail(todo), start, end,
               IF out.kind = "raise"
                 THEN [st EXCEPT !.errors = Append(@, <<code, out.msg>>)]
                 ELSE [st EXCEPT !.rows = update_or_create(@, code, start, end, out),
                                 !.count = @ + 1])

\* RecalculateIndicatorsMutation.mutate: the whole of
\* gql_mutations.calculate_indicators_for_period in its atomic block, on the
\* indicators auto that have is_automatic and is_active set.
RecalculateMutation(p, s, e, auto) ==
    LET todo == SelectSeq(CodeSeq, LAMBDA c : c \in auto /\ indicators[c].is_active)
        st == RecalculateLoop(todo, s, e,
                              [rows |-> store, count |-> 0, errors |-> <<>>])
    IN  /\ \A q \in Procs : ~Running(batch[q])
        /\ batch[p].pc \in {"idle", "done", "returned"}
        /\ runs < MaxRuns
        /\ runs' = runs + 1
        /\ store' = st.rows
        /\ logs' = Append(logs, [period_start |-> s, period_end |-> e,
                                 indicators_count |-> st.count,
                                 success |-> (Len(st.errors) = 0),
                                 error_details |-> st.errors])
        /\ batch' = [batch EXCEPT ![p] =
                       [IdleBatch EXCEPT !.pc = "returned", !.start = s, !.end = e,
                                         !.computed = st.count, !.errors = st.errors,
                                         !.before = store, !.nlogs = Len(logs)]]
        /\ UNCHANGED <<indicators, sources, payments, last>>

\* ------------------------------------------------------ upsert on any store
\* The provenance labels a stored row may carry.
Sources == {"SYSTEM", "Payroll / Social Protection"}

\* An IndicatorValue row that is in the table before a batch run: computed by
\* an earlier run, or entered and edited through IndicatorValueService for an
\* indicator that has since been switched to AUTOMATIQUE (validated or not).
ExistingRows ==
    { [id |-> 1, indicator |-> c, period_start |-> s, period_end |-> e,
       region_code |-> None, gender |-> None, value |-> v,
       qualitative_value |-> None, source |-> src, validated |-> val,
       is_deleted |-> FALSE] :
        c \in Codes, s \in Dates, e \in Dates, v \in {Num(0), Num(1)},
        src \in Sources, val \in BOOLEAN }

InitUpsert ==
    /\ indicators \in IndicatorTables
    /\ payments \in {{}, PaymentUniverse}
    /\ store \in {{}} \cup {{r} : r \in ExistingRows}
    /\ logs = <<>>
    /\ batch = [p \in Procs |-> IdleBatch]
    /\ runs = 0
    /\ last = NoLast
    /\ sources = NoSources

\* One call of a batch entry point: the scheduled job (the orchestrator) on
\* session s1, or the recalculate mutation on session s2.
NextUpsert ==
    \/ \E s \in Dates, e \in Dates : StartOnce("s1", s, e)
    \/ BatchStep("s1")
    \/ \E s \in Dates, e \in Dates, auto \in SUBSET Codes :
         runs = 0 /\ RecalculateMutation("s2", s, e, auto)

SpecUpsert == InitUpsert /\ [][NextUpsert]_vars

\* --------------------------------------------- descriptor aggregations
\* BenefitConsumption rows of three individuals, accepted and rejected.
ConsumptionUniverse ==
    { [date_due |-> 1, individual |-> "b1", status |-> "ACCEPTED", amount |-> 2],
      [date_due |-> MaxDate, individual |-> "b2", status |-> "ACCEPTED", amount |-> 1],
      [date_due |-> 1, individual |-> "b3", status |-> "REJECTED", amount |-> 3],
      [date_due |-> 1, individual |-> "b2", status |-> "REJECTED", amount |-> 1] }

\* Descriptors of the PERCENT and SUM kinds: PERCENT with both filter sets
\* (nested and disjoint), with none, with the numerator only; SUM with and
\* without filter; and a formula indicator.
AggCatalogue ==
    { IndicatorRow(TRUE, "AUTOMATIQUE",
        DataSource(TRUE, "PERCENT", NoFilter, {"ACCEPTED"}, {"ACCEPTED", "REJECTED"}), None),
      IndicatorRow(TRUE, "AUTOMATIQUE",
        DataSource(TRUE, "PERCENT", NoFilter, {"ACCEPTED"}, {"REJECTED"}), None),
      IndicatorRow(TRUE, "AUTOMATIQUE",
        DataSource(TRUE, "PERCENT", NoFilter, NoFilter, NoFilter), None),
      IndicatorRow(TRUE, "AUTOMATIQUE",
        DataSource(TRUE, "PERCENT", NoFilter, {"ACCEPTED"}, NoFilter), None),
      IndicatorRow(TRUE, "AUTOMATIQUE",
        DataSource(TRUE, "SUM", NoFilter, NoFilter, NoFilter), None),
      IndicatorRow(TRUE, "AUTOMATIQUE",
        DataSource(TRUE, "SUM", {"REJECTED"}, NoFilter, NoFilter), None),
      IndicatorRow(TRUE, "AUTOMATIQUE", NoDataSource, "ODP_002") }

InitAgg ==
    /\ indicators \in [Codes -> AggCatalogue]
    /\ payments \in SUBSET ConsumptionUniverse
    /\ store = {}
    /\ logs = <<>>
    /\ batch = [p \in Procs |-> IdleBatch]
    /\ runs = 0
    /\ last = NoLast
    /\ sources = NoSources

\* One batch run over the descriptors, that keeps running.
SpecAgg == InitAgg /\ [][NextOnce]_vars /\ WF_vars(BatchStep("s1"))

\* One batch run on a table that holds a soft-deleted row, a live row or none.
InitDeleted ==
    /\ indicators \in IndicatorTables
    /\ payments \in {{}, PaymentUniverse}
    /\ store \in {{}} \cup {{[r EXCEPT !.is_deleted = d]} : r \in ExistingRows, d \in BOOLEAN}
    /\ logs = <<>>
    /\ batch = [p \in Procs |-> IdleBatch]
    /\ runs = 0
    /\ last = NoLast
    /\ sources = NoSources

SpecDeleted == InitDeleted /\ [][NextOnce]_vars

\* ------------------------------------------------------- distinct counts
\* Payments of two active TMU beneficiaries (b1 twice), of a TMR beneficiary,
\* of a suspended TMU beneficiary, and a rejected one.
PayrollUniverse ==
    { [date_due |-> 1, individual |-> "b1", status |-> "ACCEPTED", amount |-> 1],
      [date_due |-> MaxDate, individual |-> "b1", status |-> "RECONCILED", amount |-> 1],
      [date_due |-> 1, individual |-> "b3", status |-> "ACCEPTED", amount |-> 1],
      [date_due |-> 1, individual |-> "b2", status |-> "ACCEPTED", amount |-> 1],
      [date_due |-> 1, individual |-> "b4", status |-> "ACCEPTED", amount |-> 1],
      [date_due |-> MaxDate, individual |-> "b3", status |-> "REJECTED", amount |-> 1] }

\* The ODP_002 formula alone, and a COUNT_DISTINCT descriptor alone.
PayrollCatalogue ==
    { IndicatorRow(TRUE, "AUTOMATIQUE", NoDataSource, "ODP_002"),
      IndicatorRow(TRUE, "AUTOMATIQUE", Descriptor("COUNT_DISTINCT"), None) }

InitPayroll ==
    /\ indicators \in [Codes -> PayrollCatalogue]
    /\ payments \in SUBSET PayrollUniverse
    /\ store = {}
    /\ logs = <<>>
    /\ batch = [p \in Procs |-> IdleBatch]
    /\ runs = 0
    /\ last = NoLast
    /\ sources = NoSources

\* One batch run over the payroll data, that keeps running.
SpecPayroll == InitPayroll /\ [][NextOnce]_vars /\ WF_vars(BatchStep("s1"))

\* ------------------------------------------------- formulas on payloads
\* Ticket rows.
TicketUniverse ==
    { [id |-> 1, status |-> "RESOLVED", on_time |-> TRUE],
      [id |-> 2, status |-> "OPEN", on_time |-> FALSE] }

\* json_ext of a FICHE_SUIVI_SERE_NAFA submission.
Fiche(epargne, identite) ==
    JObj([groupe_epargne |-> epargne, groupe_identite |-> identite])

Preload(nbre) == JObj([groupe_ajoute_preload |-> JObj([sere_nbre |-> nbre])])

\* MonitoringSubmission rows whose fields are numbers, numeric strings,
\* non-numeric strings and nulls, whose keys are missing, and whose
\* groupe_epargne is null; and one CONSTITUTION_SERE_NAFA row.
SubmissionUniverse ==
    { [id |-> 1, form_type |-> "FICHE_SUIVI_SERE_NAFA", submitted_at |-> 1,
       json_ext |-> Fiche(JObj([montant_total_epargne |-> JNum(10),
                                valeur_epargne |-> JNum(1)]),
                          Preload(JNum(4)))],
      [id |-> 2, form_type |-> "FICHE_SUIVI_SERE_NAFA", submitted_at |-> 1,
       json_ext |-> Fiche(JObj([montant_total_epargne |-> JStr("5"),
                                valeur_epargne |-> JStr("2")]),
                          Preload(JStr("2")))],
      [id |-> 3, form_type |-> "FICHE_SUIVI_SERE_NAFA", submitted_at |-> 1,
       json_ext |-> Fiche(JObj([montant_total_epargne |-> JStr("abc"),
                                valeur_epargne |-> JNull]),
                          Preload(JNull))],
      [id |-> 4, form_type |-> "FICHE_SUIVI_SERE_NAFA", submitted_at |-> 1,
       json_ext |-> JEmpty],
      [id |-> 5, form_type |-> "FICHE_SUIVI_SERE_NAFA", submitted_at |-> 1,
       json_ext |-> Fiche(JNull, Preload(JNum(3)))],
      [id |-> 6, form_type |-> "CONSTITUTION_SERE_NAFA", submitted_at |-> MaxDate,
       json_ext |-> JEmpty] }

\* json_ext of an Individual: n_membres a number, a string, missing; or the
\* whole json_ext null.
HouseholdUniverse ==
    { JObj([n_membres |-> JNum(3)]), JObj([n_membres |-> JStr("abc")]), JEmpty, JNull }

\* Indicators of the formulas that read tickets, submissions and households,
\* and one descriptor.
FormCatalogue ==
    { IndicatorRow(TRUE, "AUTOMATIQUE", NoDataSource, "IRI_012"),
      IndicatorRow(TRUE, "AUTOMATIQUE", NoDataSource, "ODP_006"),
      IndicatorRow(TRUE, "AUTOMATIQUE", NoDataSource, "PIP_13"),
      IndicatorRow(TRUE, "AUTOMATIQUE", NoDataSource, "PIP_15"),
      IndicatorRow(TRUE, "AUTOMATIQUE", NoDataSource, "PIP_16"),
      IndicatorRow(TRUE, "AUTOMATIQUE", Descriptor("COUNT"), None) }

InitForm ==
    /\ indicators \in [Codes -> FormCatalogue]
    /\ payments = {}
    /\ store = {}
    /\ logs = <<>>
    /\ batch = [p \in Procs |-> IdleBatch]
    /\ runs = 0
    /\ last = NoLast
    /\ sources \in
         { [tickets |-> k, submissions |-> s,
            individuals |-> [i \in {b.individual : b \in Beneficiaries} |->
                               IF i = "b1" THEN h ELSE JObj([n_membres |-> JStr("2")])]] :
             k \in SUBSET TicketUniverse,
             s \in {x \in SUBSET SubmissionUniverse : Cardinality(x) <= 2},
             h \in HouseholdUniverse }

\* One batch run over the formulas, that keeps running.
SpecForm == InitForm /\ [][NextOnce]_vars /\ WF_vars(BatchStep("s1"))

\* ------------------------------------------------------------------- SLA
SLA_DAYS == 21
WARN_WINDOW == 3

\* A submitted_at string that datetime.fromisoformat rejects.
Unparseable == -2

\* What prepare_sla returns when it returns None.
NoSla ==
    [returned |-> FALSE, submitted_at |-> NULL, due_date |-> NULL,
     days_remaining |-> 0, sla_state |-> "None"]

\* A warning window that excludes its last day.
prepare_slaStrictWindow(instance, today) ==
    LET submitted_at == IF instance.submitted_at # NULL THEN instance.submitted_at
                        ELSE instance.date_created
        due_date == submitted_at + SLA_DAYS * DayUnits
        delta == (due_date - today) \div DayUnits
    IN  IF submitted_at = NULL \/ submitted_at = Unparseable
          THEN NoSla
          ELSE [returned |-> TRUE, submitted_at |-> submitted_at, due_date |-> due_date,
                days_remaining |-> delta,
                sla_state |-> IF delta < 0 THEN "En depassement"
                              ELSE IF delta < WARN_WINDOW THEN "En alerte"
                              ELSE "Dans les délais"]

\* prepare_sla(instance) when datetime.now() reads today; times are counted in
\* clock readings, and timedelta.days is the floor of the difference in days.
prepare_sla(instance, today) ==
    LET submitted_at == IF instance.submitted_at # NULL THEN instance.submitted_at
                        ELSE instance.date_created
        due_date == submitted_at + SLA_DAYS * DayUnits
        delta == (due_date - today) \div DayUnits
    IN  IF submitted_at = NULL \/ submitted_at = Unparseable
          THEN NoSla
          ELSE [returned |-> TRUE, submitted_at |-> submitted_at, due_date |-> due_date,
                days_remaining |-> delta,
                sla_state |-> IF delta < 0 THEN "En depassement"
                              ELSE IF delta <= WARN_WINDOW THEN "En alerte"
                              ELSE "Dans les délais"]

\* Tickets with and without a submitted_at in json_ext, with and without a
\* date_created; sla is the last answer of prepare_sla and when it was given.
SlaTickets ==
    { [id |-> 1, status |-> "RESOLVED", submitted_at |-> s, date_created |-> d,
       sla |-> {}] :
        s \in {NULL, Unparseable, 0, 1}, d \in {NULL, 0, 1} }

\* The last clock reading: two days after the latest due date.
MaxNow == 1 + (SLA_DAYS + 2) * DayUnits

\* The clock advances by one reading.
Tick ==
    /\ sources.now < MaxNow
    /\ sources' = [sources EXCEPT !.now = @ + 1]
    /\ UNCHANGED <<indicators, payments, store, logs, batch, runs, last>>

\* prepare_sla is applied to ticket k.
Classify(k) ==
    /\ k \in sources.tickets
    /\ sources' = [sources EXCEPT !.tickets =
                     (@ \ {k}) \cup {[k EXCEPT !.sla = {[at |-> sources.now,
                                                         out |-> prepare_sla(k, sources.now)]}]}]
    /\ UNCHANGED <<indicators, payments, store, logs, batch, runs, last>>

InitSla ==
    /\ indicators \in [Codes -> {Catalogue[1]}]
    /\ payments = {}
    /\ store = {}
    /\ logs = <<>>
    /\ batch = [p \in Procs |-> IdleBatch]
    /\ runs = 0
    /\ last = NoLast
    /\ sources \in { [tickets |-> {k}, submissions |-> {},
                      individuals |-> NoSources.individuals, now |-> 0] :
                       k \in SlaTickets }

NextSla ==
    \/ Tick
    \/ \E k \in sources.tickets : Classify(k)

SpecSla == InitSla /\ [][NextSla]_vars

\* ------------------------------------------------------- scheduled job
\* The days of month m.
DaysIn(m, leap) ==
    IF m = 2 THEN (IF leap THEN 29 ELSE 28)
    ELSE IF m \in {4, 6, 9, 11} THEN 30 ELSE 31

RECURSIVE DaysBefore(_, _)
DaysBefore(m, leap) == IF m = 1 THEN 0 ELSE DaysBefore(m - 1, leap) + DaysIn(m - 1, leap)

\* date.toordinal() within the year: 1 for the 1st of January.
Ordinal(d, leap) == DaysBefore(d.month, leap) + d.day

\* current_quarter_dates() when timezone.now().date() is today: start and end
\* as ordinals of the year.
current_quarter_dates(today, leap) ==
    LET q_start_month == ((today.month - 1) \div 3) * 3 + 1
        start == [month |-> q_start_month, day |-> 1]
    IN  [start |-> Ordinal(start, leap), end |-> Ordinal(start, leap) + 90]

\* run_recalculate_indicators_job on session p: the batch over the period
\* current_quarter_dates() returns.
JobStart(p) ==
    LET period == current_quarter_dates(sources.today, sources.leap)
    IN  StartAlone(p, period.start, period.end)

\* Midnight, while no job runs: the date advances, up to the 31st of December.
NextDay ==
    LET d == sources.today
    IN  /\ \A p \in Procs : ~Running(batch[p])
        /\ ~(d.month = 12 /\ d.day = 31)
        /\ sources' = [sources EXCEPT !.today =
                         IF d.day < DaysIn(d.month, sources.leap)
                           THEN [d EXCEPT !.day = @ + 1]
                           ELSE [month |-> d.month + 1, day |-> 1]]
        /\ batch' = [p \in Procs |-> IdleBatch]
        /\ UNCHANGED <<indicators, payments, store, logs, runs, last>>

InitJob ==
    /\ indicators \in [Codes -> {Catalogue[1], Catalogue[2]}]
    /\ payments = {}
    /\ store = {}
    /\ logs = <<>>
    /\ batch = [p \in Procs |-> IdleBatch]
    /\ runs = 0
    /\ last = NoLast
    /\ sources \in { [tickets |-> {}, submissions |-> {},
                      individuals |-> NoSources.individuals,
                      today |-> [month |-> 1, day |-> 1], leap |-> l] :
                       l \in BOOLEAN }

\* The job of the scheduler on the days of one year.
NextJob ==
    \/ JobStart("s1")
    \/ BatchStep("s1")
    \/ NextDay

SpecJob == InitJob /\ [][NextJob]_vars

\* --------------------------------------------------------------- Kobo sync
\* The submissions Kobo serves: two with a _uuid, one without (its _id and its
\* meta/instanceID are the fallbacks), each in two versions of its answers.
KoboRows ==
    { [_uuid |-> u[1], _id |-> u[2], instanceID |-> u[3], answers |-> v] :
        u \in { <<"u1", "1", "uuid:u1">>, <<"u2", "2", "uuid:u2">>,
                <<None, "3", "uuid:u3">> },
        v \in {"v1", "v2"} }

\* r.get("_uuid") or r.get("_id")
UuidOfSyncOneForm(r) == IF r._uuid # None THEN r._uuid ELSE r._id

\* row.get("_uuid") or row.get("meta/instanceID")
UuidOfMeSync(r) == IF r._uuid # None THEN r._uuid ELSE r.instanceID

\* The MonitoringSubmission row a sync writes.
Submission(pk, uuid, form_type, r) ==
    [id |-> pk, submission_uuid |-> uuid, form_type |-> form_type,
     submitted_at |-> 1, json_ext |-> r]

\* A write that always inserts.
SubmissionInsert(rows, uuid, form_type, r) ==
    rows \cup {Submission(Cardinality(rows) + 1, uuid, form_type, r)}

\* MonitoringSubmission.objects.update_or_create(submission_uuid=uuid,
\* defaults=...): the row of that uuid gets the defaults, else a row is created.
SubmissionUpsert(rows, uuid, form_type, r) ==
    IF \E x \in rows : x.submission_uuid = uuid
      THEN {IF x.submission_uuid = uuid THEN Submission(x.id, uuid, form_type, r) ELSE x :
              x \in rows}
      ELSE rows \cup {Submission(Cardinality(rows) + 1, uuid, form_type, r)}

RECURSIVE SyncRows(_, _)
SyncRows(rows, fetched) ==
    IF fetched = <<>> THEN rows
    ELSE SyncRows(SubmissionUpsert(rows, UuidOfSyncOneForm(Head(fetched)), "SERE_NAFA",
                                   Head(fetched)),
                  Tail(fetched))

\* sync_one_form: the rows that were fetched are upserted in one transaction.
SyncOneForm(fetched) ==
    /\ sources' = [sources EXCEPT !.submissions = SyncRows(@, fetched)]
    /\ UNCHANGED <<indicators, payments, store, logs, batch, runs, last>>

\* start_me_sync on session p, for one row of the iteration: the lookup
\* MonitoringSubmission.objects.filter(submission_uuid=sub_uuid).first().
MeSyncLookup(p, r) ==
    /\ batch[p].pc = "idle"
    /\ batch' = [batch EXCEPT ![p] =
                   [IdleBatch EXCEPT
                      !.pc = "lookup",
                      !.req = {[row |-> r,
                                sub |-> {x \in sources.submissions :
                                           x.submission_uuid = UuidOfMeSync(r)}]}]]
    /\ UNCHANGED <<indicators, payments, store, logs, runs, last, sources>>

\* start_me_sync: sub.save() of the row that was found, or of a new one; the
\* INSERT of a uuid that another session stored since the lookup raises
\* IntegrityError (submission_uuid is unique), which the handler logs.
MeSyncSave(p) ==
    /\ batch[p].pc = "lookup"
    /\ LET q == CHOOSE x \in batch[p].req : TRUE
           uuid == UuidOfMeSync(q.row)
           rows == sources.submissions
       IN  sources' =
             [sources EXCEPT !.submissions =
                IF q.sub # {}
                  THEN {IF x.id \in {y.id : y \in q.sub}
                          THEN Submission(x.id, uuid, "UNKNOWN", q.row) ELSE x : x \in rows}
                ELSE IF \E x \in rows : x.submission_uuid = uuid
                  THEN rows
                ELSE rows \cup {Submission(Cardinality(rows) + 1, uuid, "UNKNOWN", q.row)}]
    /\ batch' = [batch EXCEPT ![p] = IdleBatch]
    /\ UNCHANGED <<indicators, payments, store, logs, runs, last>>

InitSync ==
    /\ indicators \in [Codes -> {Catalogue[1]}]
    /\ payments = {}
    /\ store = {}
    /\ logs = <<>>
    /\ batch = [p \in Procs |-> IdleBatch]
    /\ runs = 0
    /\ last = NoLast
    /\ sources = NoSources

\* The scheduled sync of a form and the sync of a KoboForm, interleaved.
NextSync ==
    \/ \E r1 \in KoboRows : SyncOneForm(<<r1>>)
    \/ \E r1 \in KoboRows, r2 \in KoboRows : SyncOneForm(<<r1, r2>>)
    \/ \E r \in KoboRows : MeSyncLookup("s2", r)
    \/ MeSyncSave("s2")

SpecSync == InitSync /\ [][NextSync]_vars

\* ------------------------------------------------------------ manual entry
\* A check that takes every method for the manual one.
LowerAnyMethod(m) == "manuel"

\* str.lower() of the method names.
Lower(m) == IF m = "MANUEL" THEN "manuel" ELSE "automatique"

\* A numeric input that treats 0 as no value.
validate_value_fieldsFalsy(value, qualitative_value) ==
    (IF (value = NULL \/ value = 0) /\ qualitative_value \in {None, ""}
       THEN <<"neither">> ELSE <<>>)
      \o (IF (value # NULL /\ value # 0) /\ qualitative_value \notin {None, ""}
            THEN <<"both">> ELSE <<>>)

\* validate_value_fields(data): the messages of its errors; value is NULL when
\* the input has none, `not qualitative_value` holds of None and "".
validate_value_fields(value, qualitative_value) ==
    (IF value = NULL /\ qualitative_value \in {None, ""}
       THEN <<"neither">> ELSE <<>>)
      \o (IF value # NULL /\ qualitative_value \notin {None, ""}
            THEN <<"both">> ELSE <<>>)

\* validate_indicator_value_uniqueness(data) of a create (no id, no region,
\* no gender).
validate_indicator_value_uniqueness(rows, code, start, end) ==
    IF Matching({r \in rows : ~r.is_deleted}, code, start, end, None, None) # {}
      THEN <<"unique">> ELSE <<>>

\* IndicatorValueService._get_last_value: .order_by("-period_end", "-id").first()
_get_last_value(rows, code) ==
    LET qs == {r \in rows : r.indicator = code /\ ~r.is_deleted}
    IN  {r \in qs : \A o \in qs : \/ o.period_end < r.period_end
                                  \/ (o.period_end = r.period_end /\ o.id <= r.id)}

\* IndicatorValueService._validate_cumulative_value raises.
_validate_cumulative_value(rows, code, new_value) ==
    /\ new_value # NULL
    /\ \E last_val \in _get_last_value(rows, code) :
         /\ last_val.value # NULL
         /\ new_value < last_val.value

\* What IndicatorValueService.create answers: the errors of the first check
\* that raises, as <<code, message>> entries; none when the row is saved.
CreateErrors(rows, code, start, end, value, qualitative_value) ==
    IF Lower(indicators[code].method) # "manuel"
      THEN << <<"ValidationError", "method">> >>
    ELSE IF _validate_cumulative_value(rows, code, value)
      THEN << <<"ValidationError", "cumulative">> >>
    ELSE LET unique == validate_indicator_value_uniqueness(rows, code, start, end)
             fields == validate_value_fields(value, qualitative_value)
         IN  [k \in 1..Len(unique) |-> <<"unique_indicator_value", unique[k]>>]
               \o [k \in 1..Len(fields) |-> <<"invalid_value_input", fields[k]>>]

\* IndicatorValueService.create(obj_data) on session p, in its atomic block:
\* the row is saved when no check raises; else output_exception is returned.
ManualCreate(p, code, start, end, value, qualitative_value) ==
    LET errs == CreateErrors(store, code, start, end, value, qualitative_value)
        ids == {r.id : r \in store}
        row == [id |-> CHOOSE n \in 1..(Cardinality(ids) + 1) : n \notin ids,
                indicator |-> code, period_start |-> start, period_end |-> end,
                region_code |-> None, gender |-> None, value |-> value,
                qualitative_value |-> qualitative_value, source |-> None,
                validated |-> FALSE, is_deleted |-> FALSE]
    IN  /\ \A q \in Procs : ~Running(batch[q])
        /\ runs < MaxRuns + 1
        /\ runs' = runs + 1
        /\ store' = IF errs = <<>> THEN store \cup {row} ELSE store
        /\ batch' = [batch EXCEPT ![p] =
                       [IdleBatch EXCEPT
                          !.pc = IF errs = <<>> THEN "created" ELSE "rejected",
                          !.start = start, !.end = end, !.errors = errs,
                          !.req = {[indicator |-> code, value |-> value,
                                    qualitative_value |-> qualitative_value]},
                          !.before = store, !.nlogs = Len(logs)]]
        /\ UNCHANGED <<indicators, sources, payments, logs, last>>

\* validate_indicator_value_uniqueness(data) of an update: the input type has
\* no indicator_id, so `not indicator_id` holds and no row is looked up.
validate_indicator_value_uniquenessOfUpdate(rows, id, start, end) == <<>>

\* What IndicatorValueService.update answers for the row `found` ({} or {r}):
\* the errors of the first check that raises; the save raises IntegrityError
\* when the database constraint is violated.
UpdateErrors(rows, found, id, start, end, value) ==
    IF found = {}
      THEN << <<"ValidationError", "introuvable">> >>
    ELSE LET unique == validate_indicator_value_uniquenessOfUpdate(rows, id, start, end)
             fields == validate_value_fields(value, None)
             r == CHOOSE x \in found : TRUE
             new == [r EXCEPT !.period_start = start, !.period_end = end,
                              !.value = value]
         IN  IF unique # <<>> \/ fields # <<>>
               THEN [k \in 1..Len(unique) |-> <<"unique_indicator_value", unique[k]>>]
                      \o [k \in 1..Len(fields) |-> <<"invalid_value_input", fields[k]>>]
             ELSE IF UniqueViolation(rows, new)
               THEN << <<"IntegrityError", "unique">> >>
             ELSE <<>>

\* IndicatorValueService.update(obj_data) on session p with the input
\* {id, period_start, period_end, value}: the fields of the input are set on
\* the row and the row is saved when no check raises.
ManualUpdate(p, id, start, end, value) ==
    LET found == {r \in store : r.id = id}
        errs == UpdateErrors(store, found, id, start, end, value)
    IN  /\ \A q \in Procs : ~Running(batch[q])
        /\ runs < MaxRuns + 1
        /\ runs' = runs + 1
        /\ store' = IF errs = <<>>
                      THEN {IF r.id = id
                              THEN [r EXCEPT !.period_start = start,
                                             !.period_end = end, !.value = value]
                              ELSE r : r \in store}
                      ELSE store
        /\ batch' = [batch EXCEPT ![p] =
                       [IdleBatch EXCEPT
                          !.pc = IF errs = <<>> THEN "updated" ELSE "rejected",
                          !.start = start, !.end = end, !.errors = errs,
                          !.req = {[indicator |-> None, value |-> value,
                                    qualitative_value |-> None]},
                          !.before = store, !.nlogs = Len(logs)]]
        /\ UNCHANGED <<indicators, sources, payments, logs, last>>

\* IndicatorValueService.delete(obj_data) on session p: the row is kept and
\* marked is_deleted.
ManualDelete(p, id) ==
    LET found == {r \in store : r.id = id /\ ~r.is_deleted}
    IN  /\ \A q \in Procs : ~Running(batch[q])
        /\ runs < MaxRuns + 1
        /\ runs' = runs + 1
        /\ store' = {IF r \in found THEN [r EXCEPT !.is_deleted = TRUE] ELSE r :
                       r \in store}
        /\ batch' = [batch EXCEPT ![p] =
                       [IdleBatch EXCEPT
                          !.pc = IF found # {} THEN "deleted" ELSE "rejected",
                          !.errors = IF found # {} THEN <<>>
                                     ELSE << <<"ValidationError", "introuvable">> >>,
                          !.before = store, !.nlogs = Len(logs)]]
        /\ UNCHANGED <<indicators, sources, payments, logs, last>>

\* The numeric and qualitative values of a manual input.
InputValues == {NULL, Num(0), Num(2)}
InputQualitative == {None, "", "Oui"}

InitManual ==
    /\ indicators \in [Codes -> {Catalogue[1], Catalogue[8]}]
    /\ payments = {}
    /\ store = {}
    /\ logs = <<>>
    /\ batch = [p \in Procs |-> IdleBatch]
    /\ runs = 0
    /\ last = NoLast
    /\ sources = NoSources

\* Manual entries, one after the other, for periods with start <= end.
NextManual ==
    \E c \in Codes, s \in Dates, e \in Dates, v \in InputValues, q \in InputQualitative :
        s <= e /\ ManualCreate("s2", c, s, e, v, q)

SpecManual == InitManual /\ [][NextManual]_vars

\* Batch runs and manual creates, one after the other, on indicators of both
\* methods.
InitMixed ==
    /\ indicators \in [Codes -> {Catalogue[1], Catalogue[2], Catalogue[8]}]
    /\ payments \in {{}, PaymentUniverse}
    /\ store = {}
    /\ logs = <<>>
    /\ batch = [p \in Procs |-> IdleBatch]
    /\ runs = 0
    /\ last = NoLast
    /\ sources = NoSources

NextMixed ==
    \/ \E s \in Dates, e \in Dates : StartAlone("s1", s, e)
    \/ BatchStep("s1")
    \/ \E c \in Codes, s \in Dates, e \in Dates :
         /\ s <= e
         /\ batch["s2"].pc \in {"idle", "created", "rejected"}
         /\ ManualCreate("s2", c, s, e, Num(2), None)

SpecMixed == InitMixed /\ [][NextMixed]_vars

\* The ids a manual update or delete may name: those of the rows and one more.
InputIds == 1..(MaxRuns + 1)

\* Manual creates, updates and deletes, one after the other.
NextEdit ==
    \/ \E c \in Codes, s \in Dates, e \in Dates, v \in InputValues, q \in InputQualitative :
         s <= e /\ ManualCreate("s2", c, s, e, v, q)
    \/ \E id \in InputIds, s \in Dates, e \in Dates, v \in InputValues :
         s <= e /\ ManualUpdate("s2", id, s, e, v)
    \/ \E id \in InputIds : ManualDelete("s2", id)

SpecEdit == InitManual /\ [][NextEdit]_vars

\* One manual entry on a table that holds one row or none.
InitValidate ==
    /\ indicators \in [Codes -> {Catalogue[1], Catalogue[8]}]
    /\ payments = {}
    /\ store \in {{}} \cup {{r} : r \in ExistingRows}
    /\ logs = <<>>
    /\ batch = [p \in Procs |-> IdleBatch]
    /\ runs = 0
    /\ last = NoLast
    /\ sources = NoSources

NextValidate ==
    \E c \in Codes, s \in Dates, e \in Dates, v \in InputValues, q \in InputQualitative :
        runs = 0 /\ ManualCreate("s2", c, s, e, v, q)

SpecValidate == InitValidate /\ [][NextValidate]_vars

Range(seq) == {seq[i] : i \in 1..Len(seq)}

\* The indicators a batch run selects, in either loop.
CandidateCodes ==
    Range(DescriptorCandidates(indicators)) \cup Range(FormulaCandidates(indicators))

Done(p) == batch[p].pc = "done"

\* The log row of the invocation that just returned.
LastLog == logs[Len(logs)]

\* C1: after any number of batch runs, over any periods and data, the store
\* holds at most one IndicatorValue row per (indicator, period_start,
\* period_end, region_code, gender).
C1_AtMostOneValuePerTuple ==
    \A r1 \in store, r2 \in store : Key(r1) = Key(r2) => r1 = r2

\* A second run has just upserted a tuple that a row of an earlier run held.
C1_Witness ==
    /\ Done("s1")
    /\ Len(logs) >= 2
    /\ \E r \in store :
         /\ r.indicator \in batch["s1"].succeeded
         /\ r.period_start = batch["s1"].start
         /\ r.period_end = batch["s1"].end
         /\ \E o \in batch["s1"].before : Key(o) = Key(r)

\* C2: a second run with the same period on unchanged data leaves the same
\* IndicatorValue rows and writes none of them: its only write is one new
\* MonitoringLog row.
C2_SecondRunWritesNothing ==
    \A p \in Procs :
        (Done(p) /\ batch[p].rerun) =>
            /\ store = batch[p].before
            /\ batch[p].writes = 0
            /\ Len(logs) = batch[p].nlogs + 1

\* The candidates every attempt of which raised in the invocation b.
Raisers(b) ==
    {c \in CandidateCodes :
        /\ \E a \in b.attempted : a[2] = c
        /\ \A a \in b.attempted : a[2] = c => a \in b.raised}

\* C3: with N candidates of which exactly one always raises, the batch returns
\* N - 1 and logs success = false with exactly one error entry, which starts
\* with the code of the failing indicator.
C3_OneFailureIsolated ==
    \A p \in Procs :
        LET b == batch[p]
        IN  (/\ Done(p)
             /\ Cardinality(Raisers(b)) = 1
             /\ \A a \in b.raised : a[2] \in Raisers(b)) =>
                /\ b.computed = Cardinality(CandidateCodes) - 1
                /\ LastLog.success = FALSE
                /\ Len(LastLog.error_details) = 1
                /\ LastLog.error_details[1][1] \in Raisers(b)

AllAttempted(b) ==
    /\ \A c \in Range(DescriptorCandidates(indicators)) : <<1, c>> \in b.attempted
    /\ \A c \in Range(FormulaCandidates(indicators)) : <<2, c>> \in b.attempted

KeptInStore(b) ==
    \A k \in b.kept :
        \E r \in store : Key(r) = k.key /\ r.value = k.value /\ r.source = k.source

\* C4: an exception raised while computing one indicator never aborts the
\* batch: every candidate of both loops is still attempted, the values saved
\* for the others are in the store, and the run reaches the step that writes
\* the log.
C4_ExceptionNeverAborts ==
    /\ [](\A p \in Procs :
            Done(p) => /\ AllAttempted(batch[p])
                       /\ KeptInStore(batch[p])
                       /\ Len(logs) = batch[p].nlogs + 1)
    /\ \A p \in Procs : Running(batch[p]) ~> Done(p)

\* An invocation returned after an exception in the first loop: the second
\* loop ran and a value of another indicator is saved.
C4_Witness ==
    /\ Done("s1")
    /\ \E a \in batch["s1"].raised : a[1] = 1
    /\ \E a \in batch["s1"].attempted \ batch["s1"].raised : a[1] = 2
    /\ batch["s1"].kept # {}

\* C5: an invocation that returns appends exactly one MonitoringLog row, with
\* the period of the call, success iff no error was captured,
\* indicators_count the number of indicators that succeeded (the returned
\* value), and error_details the joined "<code>: <message>" entries.
C5_OneLogRowPerInvocation ==
    \A p \in Procs :
        LET b == batch[p]
        IN  Done(p) =>
              /\ Len(logs) = b.nlogs + 1
              /\ LastLog.period_start = b.start
              /\ LastLog.period_end = b.end
              /\ LastLog.success = (b.raised = {})
              /\ LastLog.indicators_count = Cardinality(b.succeeded)
              /\ LastLog.indicators_count = b.computed
              /\ Len(LastLog.error_details) = Cardinality(b.raised)
              /\ \A k \in 1..Len(LastLog.error_details) :
                   \E a \in b.raised : a[2] = LastLog.error_details[k][1]

\* An indicator that has a computation path: a formula of the registry or an
\* active descriptor of a known aggregation.
Resolves(i) ==
    \/ i.formula \in FORMULAS
    \/ /\ i.data_source.present
       /\ i.data_source.is_active
       /\ i.data_source.aggregation \in {"COUNT", "COUNT_DISTINCT", "SUM", "PERCENT"}

\* C6: an active automatic indicator without computation path fails
\* explicitly in a batch run: the log has an error entry "<code>: ..." and
\* success = false.
C6_UnresolvableFailsExplicitly ==
    \A p \in Procs :
        Done(p) =>
            \A c \in Codes :
                (/\ indicators[c].is_active
                 /\ indicators[c].method = "AUTOMATIQUE"
                 /\ ~Resolves(indicators[c])) =>
                    /\ \E k \in 1..Len(LastLog.error_details) :
                         LastLog.error_details[k][1] = c
                    /\ LastLog.success = FALSE

\* C7: an indicator that qualifies for both loops is counted at most once:
\* the returned count and indicators_count never exceed the number of
\* distinct candidate codes.
C7_CountedAtMostOnce ==
    \A p \in Procs :
        Done(p) =>
            /\ batch[p].computed <= Cardinality(CandidateCodes)
            /\ LastLog.indicators_count <= Cardinality(CandidateCodes)

\* C8: a batch invoked with period_start > period_end fails before any
\* computation: no indicator is computed, no IndicatorValue row is created or
\* updated, and the call does not return a count.
C8_InvertedPeriodRejected ==
    \A p \in Procs :
        (batch[p].pc # "idle" /\ batch[p].start > batch[p].end) =>
            /\ batch[p].attempted = {}
            /\ batch[p].writes = 0
            /\ ~Done(p)

\* C9: when two batch runs interleave, also between the lookup and the create
\* of _save_value, the store never holds two IndicatorValue rows of one
\* (indicator, period_start, period_end, region_code, gender), NULL or not.
C9_RaceSafeUpsert ==
    \A r \in store : Cardinality({o \in store : Key(o) = Key(r)}) = 1

\* C10: an invocation is atomic: until it finalizes none of its writes and no
\* log row is visible (so none is after an interruption), and the
\* indicators_count of its log row is the number of indicators whose
\* computations it committed.
C10_AtomicInvocation ==
    \A p \in Procs :
        /\ Running(batch[p]) =>
             (store = batch[p].before /\ Len(logs) = batch[p].nlogs)
        /\ Done(p) => LastLog.indicators_count = Cardinality(batch[p].succeeded)

\* The row the lookup of the pending _save_value call of session p found.
FoundRow(p) ==
    LET q == CHOOSE x \in batch[p].req : TRUE
    IN  CHOOSE r \in q.found : TRUE

\* The pending call of session p asks for something the found row does not hold.
Differs(p) ==
    LET q == CHOOSE x \in batch[p].req : TRUE
    IN  \/ FoundRow(p).value # q.value
        \/ FoundRow(p).source # q.source
        \/ FoundRow(p).validated # TRUE

\* C11: _save_value on a tuple that already has a row writes iff the stored
\* value, source or validated state differs from the requested one; when none
\* differs nothing is written and the row is unchanged; when one differs the
\* row afterwards holds the requested value and source.
C11_WriteIffChanged ==
    [][\A p \in Procs :
         (/\ batch[p].pc \in {"save1", "save2"}
          /\ batch'[p].pc \in {"pass1", "pass2"}
          /\ (CHOOSE x \in batch[p].req : TRUE).found # {}) =>
            LET q == CHOOSE x \in batch[p].req : TRUE
                row == FoundRow(p)
                after == {r \in View(p)' : r.id = row.id}
            IN  /\ (batch'[p].writes = batch[p].writes + 1) <=> Differs(p)
                /\ ~Differs(p) => /\ batch'[p].writes = batch[p].writes
                                  /\ batch'[p].ins = batch[p].ins
                                  /\ batch'[p].upd = batch[p].upd
                                  /\ after = {row}
                /\ Differs(p) => \A r \in after : /\ r.value = q.value
                                                  /\ r.source = q.source
                                                  /\ r.validated = TRUE
                /\ Cardinality(after) = 1]_vars

\* A run rewrote a row that differed from the request in its validated state
\* only, and another run found a row that differed in nothing.
C11_Witness ==
    \E u \in batch["s1"].upd : \E o \in batch["s1"].before :
        /\ o.id = u.id
        /\ o.value = u.value
        /\ o.source = u.source
        /\ o.validated = FALSE

Selected(b, ds) ==
    Filter({r \in payments : InRange(r.date_due, b.start, b.end)}, ds.filters)

Individuals(rows) == Cardinality({r.individual : r \in rows})

\* The committed rows of indicator c for the period of the invocation b.
ValueRows(b, c) ==
    {r \in store : /\ r.indicator = c
                   /\ r.period_start = b.start
                   /\ r.period_end = b.end}

\* C13: a PERCENT descriptor with both filter sets never faults: the stored
\* value is 0 when the denominator count is 0, 0 when the numerator count is 0
\* and the denominator is not, and otherwise 100 * numerator / denominator
\* rounded to two decimals (stored values are in hundredths).
C13_PercentNeverFaults ==
    \A p \in Procs : \A c \in Codes :
        LET b == batch[p]
            ds == indicators[c].data_source
            num == Individuals(Filter(Selected(b, ds), ds.numerator_filters))
            den == Individuals(Filter(Selected(b, ds), ds.denominator_filters))
        IN  (/\ Done(p)
             /\ ds.present /\ ds.aggregation = "PERCENT"
             /\ ds.numerator_filters # NoFilter /\ ds.denominator_filters # NoFilter) =>
                /\ <<1, c>> \notin b.raised
                /\ Cardinality(ValueRows(b, c)) = 1
                /\ \A r \in ValueRows(b, c) :
                     /\ den = 0 => r.value = 0
                     /\ (num = 0 /\ den # 0) => r.value = 0
                     /\ den # 0 => /\ 2 * (r.value * den - 10000 * num) <= den
                                   /\ 2 * (10000 * num - r.value * den) <= den

\* A finished run stored 0 for a PERCENT whose denominator set is empty while
\* its numerator set is not.
C13_Witness ==
    /\ Done("s1")
    /\ \E c \in Codes :
         LET ds == indicators[c].data_source
         IN  /\ ds.aggregation = "PERCENT"
             /\ ds.denominator_filters = {"REJECTED"}
             /\ Filter(Selected(batch["s1"], ds), ds.numerator_filters) # {}
             /\ Filter(Selected(batch["s1"], ds), ds.denominator_filters) = {}
             /\ \E r \in ValueRows(batch["s1"], c) : r.value = 0

\* C14: a SUM descriptor over zero matching rows stores the value 0 for the
\* period: a row exists, its value is 0 (not NULL), and no error is recorded.
C14_SumOfNothingIsZero ==
    \A p \in Procs : \A c \in Codes :
        LET b == batch[p]
            ds == indicators[c].data_source
        IN  (/\ Done(p)
             /\ ds.present /\ ds.aggregation = "SUM"
             /\ Selected(b, ds) = {}) =>
                /\ <<1, c>> \notin b.raised
                /\ Cardinality(ValueRows(b, c)) = 1
                /\ \A r \in ValueRows(b, c) : r.value = 0

\* A finished run of a SUM whose filter matches none of the rows of the period.
C14_Witness ==
    /\ Done("s1")
    /\ \E c \in Codes :
         LET ds == indicators[c].data_source
         IN  /\ ds.aggregation = "SUM"
             /\ ds.filters # NoFilter
             /\ \E r \in payments : InRange(r.date_due, batch["s1"].start, batch["s1"].end)
             /\ Selected(batch["s1"], ds) = {}
             /\ ValueRows(batch["s1"], c) # {}

\* The descriptor candidates whose aggregation kind is not implemented.
UnknownKind(c) ==
    /\ c \in Range(DescriptorCandidates(indicators))
    /\ indicators[c].data_source.aggregation \notin Aggregations

C16_PercentWithoutFiltersFails ==
    \A p \in Procs : \A c \in Codes :
        LET ds == indicators[c].data_source
        IN  (/\ Done(p)
             /\ ds.present /\ ds.is_active /\ ds.aggregation = "PERCENT"
             /\ (ds.numerator_filters = NoFilter \/ ds.denominator_filters = NoFilter)) =>
                /\ <<1, c>> \in batch[p].raised
                /\ ValueRows(batch[p], c) = {}
                /\ \E k \in 1..Len(LastLog.error_details) :
                     LastLog.error_details[k][1] = c

\* The formula with this key finds no source row for the period of b.
SourceAbsent(key, b) ==
    CASE key = "IRI_012" -> sources.tickets = {}
      [] key = "PIP_13" ->
           {s \in sources.submissions : /\ s.form_type = "CONSTITUTION_SERE_NAFA"
                                        /\ s.submitted_at <= b.end} = {}
      [] key \in {"PIP_15", "PIP_16"} -> Suivi(sources) = {}
      [] key = "ODP_002" -> {r \in payments : InRange(r.date_due, b.start, b.end)} = {}
      [] OTHER -> FALSE

\* C17: a registry formula whose source rows are absent does not raise and
\* saves a zero result row for (indicator, period_start, period_end); after a
\* run without error every indicator counted as computed has a value row for
\* the period.
C17_AbsentSourceSavesZero ==
    \A p \in Procs :
        LET b == batch[p]
        IN  Done(p) =>
              /\ \A c \in Range(FormulaCandidates(indicators)) :
                   (/\ indicators[c].formula \in FORMULAS
                    /\ SourceAbsent(indicators[c].formula, b)) =>
                       /\ <<2, c>> \notin b.raised
                       /\ \E r \in ValueRows(b, c) : r.value = 0
              /\ LastLog.success => \A c \in b.succeeded : ValueRows(b, c) # {}

\* The indicators whose formula reads fields of a json_ext payload.
PayloadFormulas == {"ODP_006", "PIP_15", "PIP_16"}

\* C18: a formula that reads json_ext fields coerces a number, a numeric
\* string, a non-numeric string, null and a value missing at any level of the
\* path to a number, and no fault reaches the orchestrator: the run records no
\* error entry for the indicator and saves its value.
C18_PayloadFaultsNeverPropagate ==
    \A p \in Procs :
        LET b == batch[p]
        IN  Done(p) =>
              \A c \in Range(FormulaCandidates(indicators)) :
                  indicators[c].formula \in PayloadFormulas =>
                     /\ <<2, c>> \notin b.raised
                     /\ \A k \in 1..Len(LastLog.error_details) :
                          LastLog.error_details[k][1] # c
                     /\ ValueRows(b, c) # {}

\* The input of the manual call session p answered.
Request(p) == CHOOSE x \in batch[p].req : TRUE

\* The call of session p got as far as validate_value_fields.
ReachedValidation(p) ==
    /\ batch[p].pc \in {"created", "rejected"}
    /\ \A k \in 1..Len(batch[p].errors) : batch[p].errors[k][1] # "ValidationError"

InvalidValueErrors(p) ==
    {batch[p].errors[k][2] : k \in {j \in 1..Len(batch[p].errors) :
                                      batch[p].errors[j][1] = "invalid_value_input"}}

\* C19: manual entry validation of the value fields: an input with both value
\* and qualitative_value is rejected, one with neither is rejected, and one
\* with exactly one of them raises no value-field error.
C19_ValueXorQualitative ==
    \A p \in Procs :
        ReachedValidation(p) =>
            LET hasValue == Request(p).value # NULL
                hasQualitative == Request(p).qualitative_value \notin {None, ""}
            IN  /\ (hasValue /\ hasQualitative) =>
                     (batch[p].pc = "rejected" /\ "both" \in InvalidValueErrors(p))
                /\ (~hasValue /\ ~hasQualitative) =>
                     (batch[p].pc = "rejected" /\ "neither" \in InvalidValueErrors(p))
                /\ (hasValue # hasQualitative) => InvalidValueErrors(p) = {}

\* An entry with the value 0 and no qualitative value was saved.
C19_Witness ==
    /\ batch["s2"].pc = "created"
    /\ Request("s2").value = 0
    /\ Request("s2").qualitative_value = None

\* The rows of an indicator that hold a number.
Numeric(rows, code) == {r \in rows : r.indicator = code /\ r.value # NULL}

\* C20: a manual create whose numeric value is lower than the last recorded
\* numeric value of the indicator (the latest by period_end) is rejected, and
\* the rejection leaves the IndicatorValue rows unchanged and writes no log.
C20_CumulativeRegressionRejected ==
    \A p \in Procs :
        (/\ batch[p].pc \in {"created", "rejected"}
         /\ Request(p).value # NULL
         /\ \E r \in Numeric(batch[p].before, Request(p).indicator) :
              /\ \A o \in Numeric(batch[p].before, Request(p).indicator) :
                   \/ o.period_end < r.period_end
                   \/ (o.period_end = r.period_end /\ o.id <= r.id)
              /\ Request(p).value < r.value) =>
            /\ batch[p].pc = "rejected"
            /\ store = batch[p].before
            /\ Len(logs) = batch[p].nlogs

\* C21: a manual create or update that would give a second row the tuple
\* (indicator, period_start, period_end, region_code, gender) of another row
\* is rejected and leaves the store unchanged, so no two rows that are not
\* deleted share the tuple.
C21_ManualEntriesKeepTupleUnique ==
    /\ \A p \in Procs : batch[p].pc = "rejected" => store = batch[p].before
    /\ \A r1, r2 \in {r \in store : ~r.is_deleted} : Key(r1) = Key(r2) => r1 = r2

\* The individuals a payment of the period counts for ODP_002: active
\* beneficiaries of a TMU plan with an accepted or reconciled payment due in
\* [start, end].
PaidTMU(b) ==
    {i \in {x.individual : x \in Beneficiaries} :
        /\ \E x \in Beneficiaries : x.individual = i /\ x.plan = "TMU" /\ x.status = "ACTIVE"
        /\ \E r \in payments : /\ r.individual = i
                               /\ r.status \in {"ACCEPTED", "RECONCILED"}
                               /\ b.start <= r.date_due /\ r.date_due <= b.end}

\* C22: a distinct-count indicator stores the number of distinct beneficiaries,
\* not the number of payment rows: ODP_002 stores the number of distinct
\* individuals among the accepted or reconciled payments of active TMU
\* beneficiaries due in [start, end], with source 'Payroll / Social
\* Protection'; a COUNT_DISTINCT descriptor stores the number of distinct
\* individuals of the rows of the period.
C22_DistinctBeneficiariesCounted ==
    \A p \in Procs : \A c \in Codes :
        LET b == batch[p]
            ind == indicators[c]
        IN  Done(p) =>
              /\ (ind.formula = "ODP_002" /\ ~ind.data_source.present) =>
                    /\ Cardinality(ValueRows(b, c)) = 1
                    /\ \A r \in ValueRows(b, c) :
                         /\ r.value = Num(Cardinality(PaidTMU(b)))
                         /\ r.source = "Payroll / Social Protection"
              /\ (ind.data_source.present /\ ind.data_source.aggregation = "COUNT_DISTINCT"
                    /\ ind.formula = None) =>
                    /\ Cardinality(ValueRows(b, c)) = 1
                    /\ \A r \in ValueRows(b, c) :
                         r.value = Num(Individuals(Selected(b, ind.data_source)))

\* A finished run over three qualifying payments of two beneficiaries stored 2.
C22_Witness ==
    /\ Done("s1")
    /\ Cardinality(Paid(payments, {"b1", "b3"}, batch["s1"].start, batch["s1"].end)) = 3
    /\ \E c \in Codes :
         /\ indicators[c].formula = "ODP_002"
         /\ \E r \in ValueRows(batch["s1"], c) : r.value = Num(2)

\* The indicators a batch run may compute.
Eligible(c) == indicators[c].is_active /\ indicators[c].method = "AUTOMATIQUE"

RowsOf(rows, c) == {r \in rows : r.indicator = c}

\* C23: a batch run creates or updates IndicatorValue rows only for indicators
\* that are active and automatic: it holds no write for another indicator, and
\* when it returns the rows of every inactive or manual indicator are those
\* that were there when it started.
C23_OnlyActiveAutomaticWritten ==
    \A p \in Procs :
        /\ \A r \in batch[p].ins \cup batch[p].upd : Eligible(r.indicator)
        /\ batch[p].pc \in {"done", "returned"} =>
             \A c \in Codes : ~Eligible(c) => RowsOf(store, c) = RowsOf(batch[p].before, c)

\* A finished run wrote the value of one indicator and left the row of a
\* manual or inactive indicator as it was.
C23_Witness ==
    /\ Done("s1")
    /\ store # batch["s1"].before
    /\ \E c \in Codes : /\ ~Eligible(c)
                        /\ indicators[c].data_source.present
                        /\ RowsOf(store, c) # {}

\* The order of the SLA states.
Rank(state) ==
    IF state = "Dans les délais" THEN 1 ELSE IF state = "En alerte" THEN 2 ELSE 3

\* The submission date of a ticket: json_ext's, else date_created.
SubmissionDate(k) == IF k.submitted_at # NULL THEN k.submitted_at ELSE k.date_created

\* C24: prepare_sla sets the due date 21 days after the submission date and
\* gives every record that has a submission date exactly one state from the
\* whole days remaining until the due date: late below 0, warning from 0 to 3,
\* on-time above 3; as now advances the state of a record never moves back.
C24_SlaClassification ==
    /\ [](\A k \in sources.tickets : \A a \in k.sla :
            (SubmissionDate(k) >= 0) =>
               LET days == (a.out.due_date - a.at) \div DayUnits
               IN  /\ a.out.returned
                   /\ a.out.due_date = SubmissionDate(k) + 21 * DayUnits
                   /\ a.out.days_remaining = days
                   /\ (days < 0) <=> (a.out.sla_state = "En depassement")
                   /\ (0 <= days /\ days <= 3) <=> (a.out.sla_state = "En alerte")
                   /\ (days > 3) <=> (a.out.sla_state = "Dans les délais"))
    /\ [][\A k \in sources.tickets : \A n \in sources'.tickets :
            \A a \in k.sla : \A b \in n.sla :
               (k.id = n.id /\ a.out.returned /\ b.out.returned) =>
                  Rank(b.out.sla_state) >= Rank(a.out.sla_state)]_vars

\* A ticket classified on the last day of the warning window.
C24_Witness ==
    \E k \in sources.tickets : \E a \in k.sla :
        /\ a.out.sla_state = "En alerte"
        /\ a.out.days_remaining = 3
        /\ a.at > 0

\* The first day of the calendar quarter of month m.
QuarterStart(m) ==
    [month |-> IF m <= 3 THEN 1 ELSE IF m <= 6 THEN 4 ELSE IF m <= 9 THEN 7 ELSE 10,
     day |-> 1]

\* C25: current_quarter_dates returns the quarter period in progress: for
\* every current date, start is the first day of the calendar quarter that
\* contains today, start <= end, and today lies within [start, end].
C25_TodayWithinCurrentQuarter ==
    \A p \in Procs :
        batch[p].pc # "idle" =>
            LET today == Ordinal(sources.today, sources.leap)
            IN  /\ batch[p].start = Ordinal(QuarterStart(sources.today.month), sources.leap)
                /\ batch[p].start <= batch[p].end
                /\ batch[p].start <= today
                /\ today <= batch[p].end

\* C26: after any sequence of Kobo sync runs at most one MonitoringSubmission
\* exists per submission_uuid: a sync of a stored uuid updates its row, and a
\* sync never turns the row of one Kobo submission into another's.
C26_OneSubmissionPerUuid ==
    /\ [](\A x, y \in sources.submissions :
            x.submission_uuid = y.submission_uuid => x = y)
    /\ [][/\ \A x \in sources.submissions : \E y \in sources'.submissions :
               /\ y.id = x.id
               /\ y.submission_uuid = x.submission_uuid
               /\ y.json_ext._id = x.json_ext._id
          /\ \A y \in sources'.submissions :
               (\A x \in sources.submissions : x.id # y.id) =>
                  \A x \in sources.submissions : x.submission_uuid # y.submission_uuid
         ]_vars

\* Two submissions are stored and the answers of one were replaced by a sync.
C26_Witness ==
    /\ Cardinality(sources.submissions) >= 2
    /\ \E x \in sources.submissions : x.json_ext.answers = "v2" /\ x.form_type = "UNKNOWN"
    /\ \E x \in sources.submissions : x.json_ext.answers = "v1" /\ x.form_type = "SERE_NAFA"

\* C27: for an indicator and a period a formula writes to one disaggregation
\* key whatever the data is: when a run over changed data returns, an
\* indicator that has a value for the period has exactly one row for it, and
\* that row holds what the formula computes in this run.
C27_OneCurrentRowPerFormula ==
    \A p \in Procs : \A c \in Codes :
        LET b == batch[p]
            key == indicators[c].formula
            out == FormulaOutcome(key, payments, b.start, b.end)
        IN  (/\ Done(p)
             /\ Eligible(c)
             /\ key \in FORMULAS
             /\ ValueRows(b, c) # {}) =>
                /\ Cardinality(ValueRows(b, c)) = 1
                /\ out.kind = "save"
                /\ \A r \in ValueRows(b, c) : r.value = out.value /\ r.gender = out.gender

\* C28: after the value upsert completes for a tuple, a row that is not
\* deleted and carries the computed value exists for that tuple, also when a
\* soft-deleted row of the tuple existed before the call.
C28_UpsertLeavesLiveRow ==
    \A p \in Procs : \A c \in Codes :
        LET b == batch[p]
            ind == indicators[c]
            out == DatasourceOutcome(ind.data_source, payments, b.start, b.end)
        IN  (/\ Done(p)
             /\ Eligible(c)
             /\ ind.formula = None
             /\ ind.data_source.present /\ ind.data_source.is_active
             /\ out.kind = "save") =>
                \E r \in ValueRows(b, c) :
                    /\ ~r.is_deleted
                    /\ r.region_code = None /\ r.gender = None
                    /\ r.value = out.value

\* The rows the manual entry created: it saves them without source.
ManualRows(rows, c) == {r \in RowsOf(rows, c) : r.source = None}

\* The rows the batch wrote: it always saves a source.
BatchRows(rows, c) == {r \in RowsOf(rows, c) : r.source # None}

\* C29: the manual and automatic paths are disjoint per indicator: while its
\* method is unchanged an indicator cannot both accept a manual create
\* (method 'manuel' only) and be written by the batch ('AUTOMATIQUE' only), so
\* all its values come from one path.
C29_ManualAndBatchDisjoint ==
    \A c \in Codes :
        /\ ManualRows(store, c) = {} \/ BatchRows(store, c) = {}
        /\ (batch["s2"].pc = "created" /\ Request("s2").indicator = c) =>
              indicators[c].method = "MANUEL"
        /\ \A p \in Procs : \A r \in batch[p].ins \cup batch[p].upd :
              r.indicator = c => indicators[c].method = "AUTOMATIQUE"

\* The store holds a manual value of one indicator and a batch value of the
\* other, and a manual create on the batch's indicator was just refused.
C29_Witness ==
    /\ \E c \in Codes : ManualRows(store, c) # {}
    /\ \E c \in Codes : BatchRows(store, c) # {}
    /\ batch["s2"].pc = "rejected"
    /\ BatchRows(store, Request("s2").indicator) # {}

\* The committed values of the PERCENT descriptor of indicator c for the
\* period of a finished run of session p.
PercentValues(p, c) ==
    IF Done(p) /\ indicators[c].data_source.present
               /\ indicators[c].data_source.aggregation = "PERCENT"
      THEN {r.value : r \in ValueRows(batch[p], c)}
      ELSE {}

\* C30: every value stored by a PERCENT descriptor aggregation lies between 0
\* and 100 inclusive, for every combination of generic filters,
\* numerator_filters and denominator_filters (values are in hundredths).
C30_PercentBetween0And100 ==
    \A p \in Procs : \A c \in Codes : \A v \in PercentValues(p, c) :
        0 <= v /\ v <= Num(100)

\* C30, amended: a value stored by a PERCENT descriptor is never negative, and
\* it is at most 100 when the rows the numerator filters select are among the
\* rows the denominator filters select.
C30_PercentBoundedForSubset ==
    \A p \in Procs : \A c \in Codes : \A v \in PercentValues(p, c) :
        LET ds == indicators[c].data_source
            sel == Selected(batch[p], ds)
        IN  /\ 0 <= v
            /\ Filter(sel, ds.numerator_filters) \subseteq Filter(sel, ds.denominator_filters)
                 => v <= Num(100)

\* A finished run stored a percentage strictly between 0 and 100 for a
\* numerator set inside the denominator set.
C30_Witness ==
    \E c \in Codes : \E v \in PercentValues("s1", c) :
        LET ds == indicators[c].data_source
            sel == Selected(batch["s1"], ds)
        IN  /\ Filter(sel, ds.numerator_filters) \subseteq Filter(sel, ds.denominator_filters)
            /\ Filter(sel, ds.numerator_filters) # Filter(sel, ds.denominator_filters)
            /\ 0 < v /\ v < Num(100)
====
